---- MODULE Spec2Model ----
(***************************************************************************)
(* Daily-report engine of the dealership backend: the report store, the    *)
(* get-or-generate endpoint (GET /date/{report_date}), the service-level   *)
(* create_daily_report, and the aggregation fold of                        *)
(* generate_daily_report_from_sessions.                                    *)
(*                                                                         *)
(* Instants are UTC instants counted in ticks (TicksPerSecond ticks per    *)
(* second) since 00:00 UTC of day 0.  Calendar dates are day numbers.      *)
(* MongoDB documents are records; the _id of a document is an ObjectId,    *)
(* the id of a domain object is the str() of it: two different values.     *)
(***************************************************************************)
EXTENDS Integers, Sequences, FiniteSets, TLC

----------------------------------------------------------------------------
(* Bounds of the model *)

MaxCalls == 2
MaxDocs == 2
MaxLen == 2
MaxDay == 1
TicksPerSecond == 10

(* Program constants *)

SecondsPerHour == 3600
BogotaOffsetHours == 5
HostOffsetHours == 0
SessionPageLimit == 100
FilterPageLimit == 1000

TicksPerHour == SecondsPerHour * TicksPerSecond
TicksPerDay == 24 * TicksPerHour

NoTime == 0 - 1

At(day, hour) == day * TicksPerDay + hour * TicksPerHour

----------------------------------------------------------------------------
(* Identifiers: bson ObjectId and its str() *)

ObjectId(n) == <<"ObjectId", n>>

Str(oid) == <<"str", oid[2]>>

----------------------------------------------------------------------------
(* Generic helpers *)

(* total += record[field] over the list; summed by halves, which keeps the
   evaluation shallow on a page of SessionPageLimit records *)
RECURSIVE SumOver(_, _)
SumOver(seq, field) ==
  IF seq = << >> THEN 0
  ELSE IF Len(seq) = 1 THEN seq[1][field]
  ELSE LET half == Len(seq) \div 2
       IN SumOver(SubSeq(seq, 1, half), field)
            + SumOver(SubSeq(seq, half + 1, Len(seq)), field)

Take(seq, limit) ==
  IF Len(seq) <= limit THEN seq ELSE SubSeq(seq, 1, limit)

(* cursor.sort(key, -1): descending by key; equal keys in _id order *)
SortDesc(docs, key) ==
  LET Before(d, e) == \/ d[key] > e[key]
                      \/ d[key] = e[key] /\ d["_id"][2] < e["_id"][2]
      rank == [d \in docs |-> Cardinality({e \in docs : Before(e, d)}) + 1]
  IN [i \in 1..Cardinality(docs) |-> CHOOSE d \in docs : rank[d] = i]

(* int(x) of a quotient a / b, b > 0: truncation toward zero *)
TruncDiv(a, b) == IF a >= 0 THEN a \div b ELSE 0 - ((0 - a) \div b)

----------------------------------------------------------------------------
(* Aggregation fold of generate_daily_report_from_sessions *)

DealerCostRounded(session, nowUtc) ==
  IF session.start_time # NoTime /\ session.hourly_pay # 0
  THEN LET effective_end == IF session.end_time # NoTime
                            THEN session.end_time ELSE nowUtc
           duration == effective_end - session.start_time
       IN TruncDiv(2 * duration * session.hourly_pay + TicksPerHour,
                   2 * TicksPerHour)
  ELSE 0

DealerCostToNow(session, nowUtc) ==
  IF session.start_time # NoTime /\ session.hourly_pay # 0
  THEN TruncDiv((nowUtc - session.start_time) * session.hourly_pay, TicksPerHour)
  ELSE 0

(* dealer_cost of one session: int(duration_hours * hourly_pay), or 0 when
   the session has no start_time or no hourly_pay *)
DealerCost(session, nowUtc) ==
  IF session.start_time # NoTime /\ session.hourly_pay # 0
  THEN LET effective_end == IF session.end_time # NoTime
                            THEN session.end_time ELSE nowUtc
           duration == effective_end - session.start_time
       IN TruncDiv(duration * session.hourly_pay, TicksPerHour)
  ELSE 0

TotalDealerCostHead(sessions, nowUtc) ==
  IF sessions = << >> THEN 0 ELSE DealerCost(sessions[1], nowUtc)

(* total_dealer_cost += int(dealer_cost) over the fetched sessions *)
RECURSIVE TotalDealerCost(_, _)
TotalDealerCost(sessions, nowUtc) ==
  IF sessions = << >> THEN 0
  ELSE IF Len(sessions) = 1 THEN DealerCost(sessions[1], nowUtc)
  ELSE LET half == Len(sessions) \div 2
       IN TotalDealerCost(SubSeq(sessions, 1, half), nowUtc)
            + TotalDealerCost(SubSeq(sessions, half + 1, Len(sessions)), nowUtc)

(* the loop over the fetched sessions *)
FoldSessions(sessions, nowUtc) ==
  [total_reik        |-> SumOver(sessions, "reik"),
   total_jackpot     |-> SumOver(sessions, "jackpot"),
   total_tips        |-> SumOver(sessions, "tips"),
   total_dealer_cost |-> TotalDealerCost(sessions, nowUtc),
   session_ids       |-> [i \in 1..Len(sessions) |-> sessions[i].id]]

(* the loop over the fetched jackpot wins *)
FoldJackpots(jackpots) ==
  [jackpot_wins_list  |-> [i \in 1..Len(jackpots) |->
                             [jackpot_win_id |-> jackpots[i].id,
                              sum |-> jackpots[i].value]],
   total_jackpot_wins |-> SumOver(jackpots, "value")]

(* the loop over the fetched bonos *)
FoldBonos(bonos) ==
  [bonos_list  |-> [i \in 1..Len(bonos) |->
                      [bono_id |-> bonos[i].id, sum |-> bonos[i].value]],
   total_bonos |-> SumOver(bonos, "value")]

TotalGastosNoTips(fs, fj, fb) ==
  fb.total_bonos + fj.total_jackpot_wins + fs.total_dealer_cost

TotalGastos(fs, fj, fb) ==
  fb.total_bonos + fj.total_jackpot_wins + fs.total_dealer_cost + fs.total_tips

TotalGanancias(fs, fj, fb) == fs.total_reik - TotalGastos(fs, fj, fb)

(* the keyword arguments handed to create_daily_report *)
ReportArgs(report_date, fs, fj, fb) ==
  [report_date  |-> report_date,
   reik         |-> fs.total_reik,
   jackpot      |-> fs.total_jackpot,
   ganancias    |-> TotalGanancias(fs, fj, fb),
   gastos       |-> TotalGastos(fs, fj, fb),
   sessions     |-> fs.session_ids,
   jackpot_wins |-> fj.jackpot_wins_list,
   bonos        |-> fb.bonos_list,
   comment      |-> <<Len(fs.session_ids), Len(fj.jackpot_wins_list),
                      Len(fb.bonos_list)>>]

----------------------------------------------------------------------------
(* DailyReportDomain *)

(* field_validator on reik, jackpot, ganancias, gastos *)
validate_positive_values(v) == v >= 0

(* the model runs on a host whose local date is the UTC date shifted by
   HostOffsetHours *)
HostToday(nowUtc) == (nowUtc + HostOffsetHours * TicksPerHour) \div TicksPerDay

(* TRUE iff validate_business_rules returns no error *)
validate_business_rules(report, nowUtc) ==
  /\ ~(report.date > HostToday(nowUtc))
  /\ ~(report.reik < 0)
  /\ ~(report.jackpot < 0)
  /\ ~(report.ganancias < 0)
  /\ ~(report.gastos < 0)

get_net_profit(report) == report.ganancias - report.gastos

get_total_income(report) == report.reik + report.jackpot + report.ganancias

is_profitable(report) == get_net_profit(report) > 0

DomainCreateUnchecked(args, nowUtc) ==
  {[id           |-> << >>,
    date         |-> args.report_date,
    reik         |-> args.reik,
    jackpot      |-> args.jackpot,
    ganancias    |-> args.ganancias,
    gastos       |-> args.gastos,
    sessions     |-> args.sessions,
    jackpot_wins |-> args.jackpot_wins,
    bonos        |-> args.bonos,
    comment      |-> args.comment,
    created_at   |-> nowUtc,
    updated_at   |-> nowUtc]}

(* DailyReportDomainService.create_daily_report: the set holding the new
   domain object, or the empty set when construction or validation raises
   ValueError *)
DomainCreateDailyReport(args, nowUtc) ==
  LET daily_report ==
        [id           |-> << >>,
         date         |-> args.report_date,
         reik         |-> args.reik,
         jackpot      |-> args.jackpot,
         ganancias    |-> args.ganancias,
         gastos       |-> args.gastos,
         sessions     |-> args.sessions,
         jackpot_wins |-> args.jackpot_wins,
         bonos        |-> args.bonos,
         comment      |-> args.comment,
         created_at   |-> nowUtc,
         updated_at   |-> nowUtc]
  IN IF /\ validate_positive_values(args.reik)
        /\ validate_positive_values(args.jackpot)
        /\ validate_positive_values(args.ganancias)
        /\ validate_positive_values(args.gastos)
        /\ validate_business_rules(daily_report, nowUtc)
     THEN {daily_report}
     ELSE {}

----------------------------------------------------------------------------
(* Documents of the daily_reports collection *)

(* report_data["id"] = str(report_data["_id"]); del report_data["_id"] *)
FromDoc(doc) ==
  [id           |-> Str(doc["_id"]),
   date         |-> doc.date,
   reik         |-> doc.reik,
   jackpot      |-> doc.jackpot,
   ganancias    |-> doc.ganancias,
   gastos       |-> doc.gastos,
   sessions     |-> doc.sessions,
   jackpot_wins |-> doc.jackpot_wins,
   bonos        |-> doc.bonos,
   comment      |-> doc.comment,
   created_at   |-> doc.created_at,
   updated_at   |-> doc.updated_at]

(* daily_report.dict(exclude={"id"}) as inserted under a fresh _id *)
ToDoc(report, oid) ==
  [_id          |-> oid,
   date         |-> report.date,
   reik         |-> report.reik,
   jackpot      |-> report.jackpot,
   ganancias    |-> report.ganancias,
   gastos       |-> report.gastos,
   sessions     |-> report.sessions,
   jackpot_wins |-> report.jackpot_wins,
   bonos        |-> report.bonos,
   comment      |-> report.comment,
   created_at   |-> report.created_at,
   updated_at   |-> report.updated_at]

(* collection.find({"date": report_date}) *)
FindByDate(collection, report_date) == {doc \in collection : doc.date = report_date}

(* collection.find({"_id": report_id}) *)
FindById(collection, report_id) == {doc \in collection : doc["_id"] = report_id}

(* collection.delete_one({"_id": report_id}) *)
DeleteOne(collection, report_id) ==
  IF FindById(collection, report_id) = {} THEN collection
  ELSE collection \ {CHOOSE doc \in collection : doc["_id"] = report_id}

----------------------------------------------------------------------------
(* State *)

VARIABLES
  clock,      \* index of the current instant in ClockInstants
  reports,    \* the daily_reports collection
  sessions,   \* the sessions collection
  jackpots,   \* the jackpot_prices collection
  bonos,      \* the bonos collection
  nextOid,    \* per collection, the number of the next fresh ObjectId
  calls,      \* per report request, in arrival order, its position and local variables
  agg,        \* the aggregation fold run on drawn inputs
  users       \* one user account, the authenticate_user calls in flight on it,
              \* and the wrong-password calls finished since the last
              \* activation or successful login

vars == <<clock, reports, sessions, jackpots, bonos, nextOid, calls, agg, users>>

(* the stores take at most MaxDocs inserts in all *)
CanInsert ==
  nextOid["reports"] + nextOid["sessions"] + nextOid["jackpots"]
    + nextOid["bonos"] - 4 < MaxDocs

Callers == 1..MaxCalls

(* request c arrives after the requests numbered below it *)
Arrives(c) ==
  /\ calls[c].pc = "idle"
  /\ IF c = 1 THEN TRUE ELSE calls[c - 1].pc # "idle"

ReportDates == 0..MaxDay

(* the instants the clock takes: 07:00 of day 1 in Bogota, then 22:00 of
   day 1 in Bogota, which is 03:00 UTC of day 2, then 07:00 of day 2 in
   Bogota, when day 1 is no longer today *)
ClockInstants == <<At(1, 12), At(2, 3), At(2, 12)>>

Now == ClockInstants[clock]

(* datetime.now(BOGOTA_TZ).date() *)
TodayBogota(nowUtc) == (nowUtc - BogotaOffsetHours * TicksPerHour) \div TicksPerDay

IsTodayAlways(report_date, today_bogota) == TRUE

(* is_today = report_date == today_bogota *)
IsToday(report_date, today_bogota) == report_date = today_bogota

(* datetime.combine(report_date, datetime.min.time()) and
   datetime.combine(report_date, datetime.max.time()); the store compares
   these naive values as UTC instants *)
StartOfDay(report_date) == At(report_date, 0)

EndOfDay(report_date) == At(report_date, 0) + TicksPerDay - 1

Dealers == {"d1"}

(* request bodies of POST /sessions *)
SessionInputs ==
  { [dealer_id |-> "d1", start_time |-> NoTime, end_time |-> NoTime,
     jackpot |-> 0, reik |-> 1000, tips |-> 50, hourly_pay |-> 100],
    [dealer_id |-> "d1", start_time |-> At(0, 12), end_time |-> At(0, 14),
     jackpot |-> 0, reik |-> 1000, tips |-> 0, hourly_pay |-> 0] }

JackpotValues == {5000}

BonoValues == {300}

(* arguments of direct create_daily_report calls *)
ReportInputs ==
  { [report_date |-> d, reik |-> v[1], jackpot |-> 0, ganancias |-> v[2],
     gastos |-> v[3], sessions |-> << >>, comment |-> << >>] :
      d \in ReportDates,
      v \in { <<1000, 1000, 0>>, <<1000, 0 - 4000, 5000>>,
              <<0, 0, 0>>, <<1000, 5, 10>> } }

NoResult == [kind |-> "none", report |-> << >>]

IdleCall ==
  [op |-> "none", pc |-> "idle", date |-> NoTime, today_bogota |-> NoTime,
   existing |-> {}, fs |-> << >>, fj |-> << >>, args |-> << >>,
   pending |-> << >>, result |-> NoResult]

AggOff == [pc |-> "off"]

(* is_locked and record_failed_attempt: the failed_attempts at which the
   account is locked *)
LockoutThreshold == 5

(* an authenticate_user call slot that holds no call; returned is what the
   last call in the slot returned *)
IdleAuth == [pc |-> "idle", update |-> << >>, returned |-> "-"]

(* a created user: SecurityInfo() with failed_attempts 0, is_active True *)
UsersStart ==
  [failed_attempts |-> 0, is_active |-> TRUE,
   auth |-> [a \in Callers |-> IdleAuth], wrong |-> 0]

Init ==
  /\ users = UsersStart
  /\ clock = 1
  /\ reports = {}
  /\ sessions = {}
  /\ jackpots = {}
  /\ bonos = {}
  /\ nextOid = [c \in {"reports", "sessions", "jackpots", "bonos"} |-> 1]
  /\ calls = [c \in Callers |-> IdleCall]
  /\ agg = AggOff

----------------------------------------------------------------------------
(* Source stores: sessions, jackpot wins, bonos *)

Tick ==
  /\ clock < Len(ClockInstants)
  /\ clock' = clock + 1
  /\ UNCHANGED <<reports, sessions, jackpots, bonos, nextOid, calls, agg, users>>

(* the SessionDomain built from a stored document, with id = str(_id) *)
SessionFromDoc(doc) ==
  [id         |-> Str(doc["_id"]),
   dealer_id  |-> doc.dealer_id,
   start_time |-> doc.start_time,
   end_time   |-> doc.end_time,
   jackpot    |-> doc.jackpot,
   reik       |-> doc.reik,
   tips       |-> doc.tips,
   hourly_pay |-> doc.hourly_pay]

(* find_one({"dealer_id": dealer_id, "end_time": None}) *)
ActiveSessionsByDealer(dealer_id) ==
  {doc \in sessions : doc.dealer_id = dealer_id /\ doc.end_time = NoTime}

(* SessionService.create_session: rejected when the dealer has an active
   session or hourly_pay is negative; start_time defaults to now; end_time,
   jackpot, reik and tips are assigned after validation *)
CreateSession(input) ==
  /\ CanInsert
  /\ ActiveSessionsByDealer(input.dealer_id) = {}
  /\ input.hourly_pay >= 0
  /\ sessions' = sessions \cup
       {[_id        |-> ObjectId(nextOid["sessions"]),
         dealer_id  |-> input.dealer_id,
         start_time |-> IF input.start_time = NoTime THEN Now ELSE input.start_time,
         end_time   |-> input.end_time,
         jackpot    |-> input.jackpot,
         reik       |-> input.reik,
         tips       |-> input.tips,
         hourly_pay |-> input.hourly_pay]}
  /\ nextOid' = [nextOid EXCEPT !["sessions"] = @ + 1]
  /\ UNCHANGED <<clock, reports, jackpots, bonos, calls, agg, users>>

(* JackpotPriceService.create_jackpot_price: value must be positive,
   created_at is now *)
CreateJackpotPrice(value) ==
  /\ CanInsert
  /\ value > 0
  /\ jackpots' = jackpots \cup
       {[_id |-> ObjectId(nextOid["jackpots"]), value |-> value, created_at |-> Now]}
  /\ nextOid' = [nextOid EXCEPT !["jackpots"] = @ + 1]
  /\ UNCHANGED <<clock, reports, sessions, bonos, calls, agg, users>>

(* BonoService.create_bono: value must be positive, created_at is now *)
CreateBono(value) ==
  /\ CanInsert
  /\ value > 0
  /\ bonos' = bonos \cup
       {[_id |-> ObjectId(nextOid["bonos"]), value |-> value, created_at |-> Now]}
  /\ nextOid' = [nextOid EXCEPT !["bonos"] = @ + 1]
  /\ UNCHANGED <<clock, reports, sessions, jackpots, calls, agg, users>>

(* SessionService.get_sessions_by_date_range: start_time in the range,
   newest first, at most SessionPageLimit *)
get_sessions_by_date_range(start_date, end_date) ==
  LET found == {doc \in sessions :
                  doc.start_time >= start_date /\ doc.start_time <= end_date}
      page == Take(SortDesc(found, "start_time"), SessionPageLimit)
  IN [i \in 1..Len(page) |-> SessionFromDoc(page[i])]

(* filter_jackpots / filter_bonos with date_from, date_to and limit=1000:
   created_at in the range, newest first *)
FilterByCreatedAt(collection, date_from, date_to, limit) ==
  LET found == {doc \in collection :
                  doc.created_at >= date_from /\ doc.created_at <= date_to}
      page == Take(SortDesc(found, "created_at"), limit)
  IN [i \in 1..Len(page) |-> [id |-> Str(page[i]["_id"]), value |-> page[i].value]]

----------------------------------------------------------------------------
(* DailyReportService *)

(* the parameters of DailyReportService.create_daily_report *)
CreateDailyReportParams ==
  {"report_date", "reik", "jackpot", "ganancias", "gastos", "sessions", "comment"}

(* a call with keyword arguments binds iff every keyword is a parameter;
   otherwise the call raises TypeError before the body runs *)
Binds(kwargs) == DOMAIN kwargs \subseteq CreateDailyReportParams

(* the arguments the service hands to the domain service: jackpot_wins and
   bonos are not passed and default to empty lists *)
ServiceDomainArgs(kwargs) ==
  [report_date  |-> kwargs.report_date,
   reik         |-> kwargs.reik,
   jackpot      |-> kwargs.jackpot,
   ganancias    |-> kwargs.ganancias,
   gastos       |-> kwargs.gastos,
   sessions     |-> kwargs.sessions,
   jackpot_wins |-> << >>,
   bonos        |-> << >>,
   comment      |-> kwargs.comment]

get_report_by_date_blind(report_date) == {{}}

(* get_report_by_date: the possible results of find_one({"date": d}), each
   the empty set (None) or a singleton holding the domain object *)
get_report_by_date(report_date) ==
  IF FindByDate(reports, report_date) = {} THEN {{}}
  ELSE {{FromDoc(doc)} : doc \in FindByDate(reports, report_date)}

delete_report_by_str(report_id) ==
  {doc \in reports : Str(doc["_id"]) # report_id}

(* delete_report: the collection after delete_one({"_id": report_id}) *)
delete_report(report_id) == DeleteOne(reports, report_id)

Finished(call, kind, report) ==
  [call EXCEPT !.pc = "done", !.pending = << >>, !.fs = << >>, !.fj = << >>,
               !.result = [kind |-> kind, report |-> report]]

----------------------------------------------------------------------------
(* GET /date/{report_date}: get_daily_report_by_date *)

GogStart(c, report_date) ==
  /\ Arrives(c)
  /\ calls' = [calls EXCEPT ![c] =
       [IdleCall EXCEPT !.op = "gog", !.date = report_date,
                        !.today_bogota = TodayBogota(Now),
                        !.pc = IF IsToday(report_date, TodayBogota(Now))
                               THEN "today_lookup" ELSE "past_lookup"]]
  /\ UNCHANGED <<clock, reports, sessions, jackpots, bonos, nextOid, agg, users>>

GogTodayLookup(c) ==
  /\ calls[c].pc = "today_lookup"
  /\ \E found \in get_report_by_date(calls[c].date) :
       calls' = [calls EXCEPT ![c].existing = found,
                              ![c].pc = IF found # {} THEN "today_delete"
                                        ELSE "gen_sessions"]
  /\ UNCHANGED <<clock, reports, sessions, jackpots, bonos, nextOid, agg, users>>

GogTodayDelete(c) ==
  /\ calls[c].pc = "today_delete"
  /\ LET existing_report == CHOOSE r \in calls[c].existing : TRUE
     IN reports' = delete_report(existing_report.id)
  /\ calls' = [calls EXCEPT ![c].pc = "gen_sessions"]
  /\ UNCHANGED <<clock, sessions, jackpots, bonos, nextOid, agg, users>>

GogPastLookup(c) ==
  /\ calls[c].pc = "past_lookup"
  /\ \E found \in get_report_by_date(calls[c].date) :
       calls' = [calls EXCEPT ![c] =
         IF found # {}
         THEN Finished([@ EXCEPT !.existing = found], "ok",
                       <<CHOOSE r \in found : TRUE>>)
         ELSE [@ EXCEPT !.pc = "gen_sessions"]]
  /\ UNCHANGED <<clock, reports, sessions, jackpots, bonos, nextOid, agg, users>>

(* generate_daily_report_from_sessions: fetch the sessions, run the loop *)
GenSessions(c) ==
  /\ calls[c].pc = "gen_sessions"
  /\ LET fetched == get_sessions_by_date_range(StartOfDay(calls[c].date),
                                               EndOfDay(calls[c].date))
     IN calls' = [calls EXCEPT ![c].fs = <<FoldSessions(fetched, Now)>>,
                               ![c].pc = "gen_jackpots"]
  /\ UNCHANGED <<clock, reports, sessions, jackpots, bonos, nextOid, agg, users>>

(* fetch the jackpot wins, run the loop *)
GenJackpots(c) ==
  /\ calls[c].pc = "gen_jackpots"
  /\ LET fetched == FilterByCreatedAt(jackpots, StartOfDay(calls[c].date),
                                      EndOfDay(calls[c].date), FilterPageLimit)
     IN calls' = [calls EXCEPT ![c].fj = <<FoldJackpots(fetched)>>,
                               ![c].pc = "gen_bonos"]
  /\ UNCHANGED <<clock, reports, sessions, jackpots, bonos, nextOid, agg, users>>

(* fetch the bonos, run the loop, compute the totals and call
   create_daily_report with the keyword arguments *)
GenBonos(c) ==
  /\ calls[c].pc = "gen_bonos"
  /\ LET fetched == FilterByCreatedAt(bonos, StartOfDay(calls[c].date),
                                      EndOfDay(calls[c].date), FilterPageLimit)
         kwargs == ReportArgs(calls[c].date, calls[c].fs[1], calls[c].fj[1],
                              FoldBonos(fetched))
     IN calls' = [calls EXCEPT ![c] =
          IF Binds(kwargs)
          THEN [@ EXCEPT !.args = <<kwargs>>, !.pc = "create_lookup"]
          ELSE Finished([@ EXCEPT !.args = <<kwargs>>], "TypeError", << >>)]
  /\ UNCHANGED <<clock, reports, sessions, jackpots, bonos, nextOid, agg, users>>

----------------------------------------------------------------------------
(* DailyReportService.create_daily_report *)

CreateStart(c, input) ==
  /\ Arrives(c)
  /\ Binds(input)
  /\ calls' = [calls EXCEPT ![c] =
       [IdleCall EXCEPT !.op = "create", !.date = input.report_date,
                        !.args = <<input>>, !.pc = "create_lookup"]]
  /\ UNCHANGED <<clock, reports, sessions, jackpots, bonos, nextOid, agg, users>>

(* the lookup by date, then the domain validation *)
CreateLookup(c) ==
  /\ calls[c].pc = "create_lookup"
  /\ \E found \in get_report_by_date(calls[c].args[1].report_date) :
       LET made == DomainCreateDailyReport(ServiceDomainArgs(calls[c].args[1]), Now)
       IN calls' = [calls EXCEPT ![c] =
            IF found # {} \/ made = {}
            THEN Finished(@, "ValueError", << >>)
            ELSE [@ EXCEPT !.pending = <<CHOOSE r \in made : TRUE>>,
                           !.pc = "create_insert"]]
  /\ UNCHANGED <<clock, reports, sessions, jackpots, bonos, nextOid, agg, users>>

(* insert_one, then daily_report.id = str(result.inserted_id) *)
CreateInsert(c) ==
  /\ calls[c].pc = "create_insert"
  /\ CanInsert
  /\ LET oid == ObjectId(nextOid["reports"])
     IN /\ reports' = reports \cup {ToDoc(calls[c].pending[1], oid)}
        /\ calls' = [calls EXCEPT ![c] =
             Finished(@, "ok", <<[calls[c].pending[1] EXCEPT !.id = Str(oid)]>>)]
  /\ nextOid' = [nextOid EXCEPT !["reports"] = @ + 1]
  /\ UNCHANGED <<clock, sessions, jackpots, bonos, agg, users>>

Next ==
  \/ Tick
  \/ \E input \in SessionInputs : CreateSession(input)
  \/ \E value \in JackpotValues : CreateJackpotPrice(value)
  \/ \E value \in BonoValues : CreateBono(value)
  \/ \E c \in Callers, d \in ReportDates : GogStart(c, d)
  \/ \E c \in Callers : GogTodayLookup(c)
  \/ \E c \in Callers : GogTodayDelete(c)
  \/ \E c \in Callers : GogPastLookup(c)
  \/ \E c \in Callers : GenSessions(c)
  \/ \E c \in Callers : GenJackpots(c)
  \/ \E c \in Callers : GenBonos(c)
  \/ \E c \in Callers, input \in ReportInputs : CreateStart(c, input)
  \/ \E c \in Callers : CreateLookup(c)
  \/ \E c \in Callers : CreateInsert(c)

Spec == Init /\ [][Next]_vars

(* the report store driven by create_daily_report calls alone *)
NextCreate ==
  \/ Tick
  \/ \E c \in Callers, input \in ReportInputs : CreateStart(c, input)
  \/ \E c \in Callers : CreateLookup(c)
  \/ \E c \in Callers : CreateInsert(c)

SpecCreate == Init /\ [][NextCreate]_vars

----------------------------------------------------------------------------
(* Reports by id: PUT /{report_id}, update_report, delete_report *)

MoneyFields == {"reik", "jackpot", "ganancias", "gastos"}

(* DailyReportUpdateSchema.validate_positive_values: a request body with a
   negative money value is refused before the handler runs *)
UpdateSchemaValid(report_data) ==
  \A f \in MoneyFields : report_data[f] # << >> => report_data[f][1] >= 0

(* the fields update_daily_report copies into update_dict *)
UpdateDictFields == {"reik", "jackpot", "ganancias", "gastos", "sessions", "comment"}

(* update_dict: the copied fields of the body that are not None *)
UpdateDict(report_data) ==
  [f \in {g \in UpdateDictFields : report_data[g] # << >>} |-> report_data[f][1]]

(* get_report_by_id: the empty set (None) or a singleton *)
get_report_by_id(report_id) == {FromDoc(doc) : doc \in FindById(reports, report_id)}

(* setattr(existing_report, key, value) for every key the object has, then
   updated_at = utcnow() *)
MergeUpdates(existing_report, updates, nowUtc) ==
  [f \in DOMAIN existing_report |->
     IF f = "updated_at" THEN nowUtc
     ELSE IF f \in DOMAIN updates THEN updates[f]
     ELSE existing_report[f]]

(* existing_report.dict(exclude={"id", "created_at"}) *)
UpdateData(report) == [f \in DOMAIN report \ {"id", "created_at"} |-> report[f]]

(* collection.update_one({"_id": report_id}, {"$set": update_data}) *)
UpdateOne(collection, report_id, update_data) ==
  { IF doc["_id"] = report_id
    THEN [f \in DOMAIN doc |-> IF f \in DOMAIN update_data THEN update_data[f]
                                ELSE doc[f]]
    ELSE doc : doc \in collection }

update_report_by_str(report_id, updates, nowUtc) ==
  [reports |-> { IF Str(doc["_id"]) = report_id
                 THEN [f \in DOMAIN doc |->
                         IF f \in DOMAIN updates THEN updates[f]
                         ELSE IF f = "created_at" THEN nowUtc
                         ELSE doc[f]]
                 ELSE doc : doc \in reports },
   kind |-> "ok", report |-> << >>]

(* DailyReportService.update_report: the collection after the call and what
   the call returns (kind "None"), raises (kind "ValueError") or returns as
   the updated object (kind "ok") *)
update_report(report_id, updates, nowUtc) ==
  IF get_report_by_id(report_id) = {}
  THEN [reports |-> reports, kind |-> "None", report |-> << >>]
  ELSE LET existing_report ==
             MergeUpdates(CHOOSE r \in get_report_by_id(report_id) : TRUE,
                          updates, nowUtc)
       IN IF ~validate_business_rules(existing_report, nowUtc)
          THEN [reports |-> reports, kind |-> "ValueError", report |-> << >>]
          ELSE [reports |-> UpdateOne(reports, report_id, UpdateData(existing_report)),
                kind |-> "ok", report |-> <<existing_report>>]

(* result.deleted_count of delete_one({"_id": report_id}) *)
DeletedCount(collection, report_id) ==
  IF FindById(collection, report_id) = {} THEN 0 ELSE 1

(* the ids a client can send: the str() of the ids the store hands out *)
ReportIds == {Str(ObjectId(n)) : n \in 1..MaxDocs}

NoBody ==
  [reik |-> << >>, jackpot |-> << >>, ganancias |-> << >>, gastos |-> << >>,
   sessions |-> << >>, jackpot_wins |-> << >>, bonos |-> << >>,
   comment |-> << >>]

(* request bodies of PUT /{report_id} *)
UpdateBodies ==
  { [NoBody EXCEPT !.reik = <<2000>>],
    [NoBody EXCEPT !.gastos = <<7>>,
                   !.jackpot_wins = <<<<[jackpot_win_id |-> Str(ObjectId(1)),
                                         sum |-> 5000]>>>>,
                   !.bonos = <<<<[bono_id |-> Str(ObjectId(1)), sum |-> 300]>>>>],
    [NoBody EXCEPT !.reik = <<0 - 1>>] }

(* keyword arguments of direct update_report calls *)
ServiceUpdates == { [reik |-> 0 - 1], [gastos |-> 7] }

(* PUT /{report_id}: update_daily_report. 422 when the body fails the
   schema, 404 when update_report returns None, 400 on ValueError *)
UpdateDailyReport(c, report_id, report_data) ==
  /\ Arrives(c)
  /\ calls[c].pc = "idle"
  /\ LET call == [IdleCall EXCEPT !.op = "put",
                    !.args = <<[report_id |-> report_id,
                                report_data |-> report_data]>>]
         r == update_report(report_id, UpdateDict(report_data), Now)
     IN IF ~UpdateSchemaValid(report_data)
        THEN /\ calls' = [calls EXCEPT ![c] = Finished(call, "ValidationError", << >>)]
             /\ reports' = reports
        ELSE /\ calls' = [calls EXCEPT ![c] =
                  Finished(call, IF r.kind = "None" THEN "NotFound" ELSE r.kind,
                           r.report)]
             /\ reports' = r.reports
  /\ UNCHANGED <<clock, sessions, jackpots, bonos, nextOid, agg, users>>

(* a direct call update_report(report_id, **updates) *)
UpdateReport(c, report_id, updates) ==
  /\ Arrives(c)
  /\ calls[c].pc = "idle"
  /\ LET call == [IdleCall EXCEPT !.op = "update",
                    !.args = <<[report_id |-> report_id, updates |-> updates]>>]
         r == update_report(report_id, updates, Now)
     IN /\ calls' = [calls EXCEPT ![c] = Finished(call, r.kind, r.report)]
        /\ reports' = r.reports
  /\ UNCHANGED <<clock, sessions, jackpots, bonos, nextOid, agg, users>>

(* a call delete_report(report_id): returns deleted_count > 0 *)
DeleteReport(c, report_id) ==
  /\ Arrives(c)
  /\ calls[c].pc = "idle"
  /\ LET call == [IdleCall EXCEPT !.op = "delete",
                    !.args = <<[report_id |-> report_id]>>]
     IN calls' = [calls EXCEPT ![c] =
          Finished(call,
                   IF DeletedCount(reports, report_id) > 0 THEN "True" ELSE "False",
                   << >>)]
  /\ reports' = delete_report(report_id)
  /\ UNCHANGED <<clock, sessions, jackpots, bonos, nextOid, agg, users>>

(* the report store driven by create, update and delete calls *)
NextManage ==
  \/ Tick
  \/ \E c \in Callers, input \in ReportInputs : CreateStart(c, input)
  \/ \E c \in Callers : CreateLookup(c)
  \/ \E c \in Callers : CreateInsert(c)
  \/ \E c \in Callers, id \in ReportIds, body \in UpdateBodies :
       UpdateDailyReport(c, id, body)
  \/ \E c \in Callers, id \in ReportIds, updates \in ServiceUpdates :
       UpdateReport(c, id, updates)
  \/ \E c \in Callers, id \in ReportIds : DeleteReport(c, id)

SpecManage == Init /\ [][NextManage]_vars

----------------------------------------------------------------------------
(* Every operation that writes reports: create, get-or-generate, update,
   add_income, add_expense, delete *)

IncomeTypes == {"reik", "jackpot", "ganancias"}

(* DailyReportService.add_income: the collection after the call and its
   outcome *)
add_income(report_id, amount, income_type, nowUtc) ==
  IF get_report_by_id(report_id) = {}
  THEN [reports |-> reports, kind |-> "None", report |-> << >>]
  ELSE IF amount < 0 \/ income_type \notin IncomeTypes
  THEN [reports |-> reports, kind |-> "ValueError", report |-> << >>]
  ELSE LET existing_report == CHOOSE r \in get_report_by_id(report_id) : TRUE
           updated_report ==
             [existing_report EXCEPT ![income_type] = @ + amount,
                                     !.updated_at = nowUtc]
       IN [reports |-> UpdateOne(reports, report_id,
                         [f \in IncomeTypes \cup {"updated_at"} |-> updated_report[f]]),
           kind |-> "ok", report |-> <<updated_report>>]

(* DailyReportService.add_expense *)
add_expense(report_id, amount, nowUtc) ==
  IF get_report_by_id(report_id) = {}
  THEN [reports |-> reports, kind |-> "None", report |-> << >>]
  ELSE IF amount < 0
  THEN [reports |-> reports, kind |-> "ValueError", report |-> << >>]
  ELSE LET existing_report == CHOOSE r \in get_report_by_id(report_id) : TRUE
           updated_report ==
             [existing_report EXCEPT !.gastos = @ + amount, !.updated_at = nowUtc]
       IN [reports |-> UpdateOne(reports, report_id,
                         [f \in {"gastos", "updated_at"} |-> updated_report[f]]),
           kind |-> "ok", report |-> <<updated_report>>]

Amounts == {0 - 5, 5}

AddIncome(c, report_id, amount, income_type) ==
  /\ Arrives(c)
  /\ LET call == [IdleCall EXCEPT !.op = "add_income",
                    !.args = <<[report_id |-> report_id, amount |-> amount,
                                income_type |-> income_type]>>]
         r == add_income(report_id, amount, income_type, Now)
     IN /\ calls' = [calls EXCEPT ![c] = Finished(call, r.kind, r.report)]
        /\ reports' = r.reports
  /\ UNCHANGED <<clock, sessions, jackpots, bonos, nextOid, agg, users>>

AddExpense(c, report_id, amount) ==
  /\ Arrives(c)
  /\ LET call == [IdleCall EXCEPT !.op = "add_expense",
                    !.args = <<[report_id |-> report_id, amount |-> amount]>>]
         r == add_expense(report_id, amount, Now)
     IN /\ calls' = [calls EXCEPT ![c] = Finished(call, r.kind, r.report)]
        /\ reports' = r.reports
  /\ UNCHANGED <<clock, sessions, jackpots, bonos, nextOid, agg, users>>

(* a call get_report_by_id(report_id) *)
GetReportById(c, report_id) ==
  /\ Arrives(c)
  /\ LET call == [IdleCall EXCEPT !.op = "get",
                    !.args = <<[report_id |-> report_id]>>]
         found == get_report_by_id(report_id)
     IN calls' = [calls EXCEPT ![c] =
          IF found = {} THEN Finished(call, "None", << >>)
          ELSE Finished(call, "ok", <<CHOOSE r \in found : TRUE>>)]
  /\ UNCHANGED <<clock, reports, sessions, jackpots, bonos, nextOid, agg, users>>

(* arguments of create_daily_report calls, one with a negative gastos and
   one with a negative reik *)
LedgerInputs ==
  { [report_date |-> MaxDay, reik |-> v[1], jackpot |-> 0, ganancias |-> v[2],
     gastos |-> v[3], sessions |-> << >>, comment |-> << >>] :
      v \in { <<1000, 1000, 0>>, <<1000, 0, 0 - 10>>, <<0 - 1, 0, 0>> } }

LedgerNext ==
  \/ Tick
  \/ \E c \in Callers, input \in LedgerInputs : CreateStart(c, input)
  \/ \E c \in Callers : CreateLookup(c)
  \/ \E c \in Callers : CreateInsert(c)
  \/ \E c \in Callers, d \in ReportDates : GogStart(c, d)
  \/ \E c \in Callers : GogTodayLookup(c)
  \/ \E c \in Callers : GogTodayDelete(c)
  \/ \E c \in Callers : GogPastLookup(c)
  \/ \E c \in Callers : GenSessions(c)
  \/ \E c \in Callers : GenJackpots(c)
  \/ \E c \in Callers : GenBonos(c)
  \/ \E c \in Callers, id \in ReportIds, updates \in ServiceUpdates :
       UpdateReport(c, id, updates)
  \/ \E c \in Callers, id \in ReportIds, amount \in Amounts,
        income_type \in {"reik", "tips"} : AddIncome(c, id, amount, income_type)
  \/ \E c \in Callers, id \in ReportIds, amount \in Amounts :
       AddExpense(c, id, amount)
  \/ \E c \in Callers, id \in ReportIds : DeleteReport(c, id)
  \/ \E c \in Callers, id \in ReportIds : GetReportById(c, id)

SpecLedger == Init /\ [][LedgerNext]_vars

----------------------------------------------------------------------------
(* Sessions: create_session, update_session, end_session *)

(* bson ObjectId(session_id) of the str() of an id *)
ToObjectId(id) == ObjectId(id[2])

(* SessionService.get_session_by_id: the empty set (None) or a singleton *)
get_session_by_id(session_id) ==
  {SessionFromDoc(doc) : doc \in FindById(sessions, ToObjectId(session_id))}

(* TRUE iff SessionDomain.validate_business_rules returns no error *)
session_validate_business_rules(session) ==
  /\ ~(session.end_time # NoTime /\ session.end_time < session.start_time)
  /\ ~(session.jackpot < 0)
  /\ ~(session.reik < 0)
  /\ ~(session.tips < 0)
  /\ ~(session.hourly_pay < 0)

(* arguments of create_session calls: those of SessionInputs and a closed
   session whose end_time lies before its start_time *)
SessionRequests ==
  SessionInputs \cup
  { [dealer_id |-> "d1", start_time |-> At(0, 14), end_time |-> At(0, 12),
     jackpot |-> 0, reik |-> 0, tips |-> 0, hourly_pay |-> 100] }

SessionIds == {Str(ObjectId(n)) : n \in 1..MaxDocs}

(* end_time arguments of end_session: absent, or 12:00 UTC of day 0 *)
EndTimes == {NoTime, At(0, 12)}

(* keyword arguments of update_session *)
SessionUpdates ==
  { [start_time |-> At(MaxDay + 1, 0)], [end_time |-> At(0, 13)], [reik |-> 5] }

(* end_session up to its write: the lookup and the domain's end_session *)
EndSessionRead(c, session_id, end_time) ==
  /\ Arrives(c)
  /\ LET call == [IdleCall EXCEPT !.op = "end_session",
                    !.args = <<[session_id |-> session_id, end_time |-> end_time]>>]
         found == get_session_by_id(session_id)
         session == CHOOSE x \in found : TRUE
         end_time_utc == IF end_time = NoTime THEN Now ELSE end_time
     IN calls' = [calls EXCEPT ![c] =
          IF found = {} THEN Finished(call, "None", << >>)
          ELSE IF session.end_time # NoTime \/ end_time_utc < session.start_time
          THEN Finished(call, "ValueError", << >>)
          ELSE [call EXCEPT !.pending = <<[end_time |-> end_time_utc]>>,
                            !.pc = "end_write"]]
  /\ UNCHANGED <<clock, reports, sessions, jackpots, bonos, nextOid, agg, users>>

(* update_one({"_id": ObjectId(session_id)}, {"$set": {end_time, updated_at}}) *)
EndSessionWrite(c) ==
  /\ calls[c].pc = "end_write"
  /\ sessions' = UpdateOne(sessions, ToObjectId(calls[c].args[1].session_id),
                           calls[c].pending[1])
  /\ calls' = [calls EXCEPT ![c] = Finished(@, "ok", << >>)]
  /\ UNCHANGED <<clock, reports, jackpots, bonos, nextOid, agg, users>>

(* update_session up to its write: the lookup, the setattr loop and the
   validation of the merged session *)
UpdateSessionRead(c, session_id, updates) ==
  /\ Arrives(c)
  /\ LET call == [IdleCall EXCEPT !.op = "update_session",
                    !.args = <<[session_id |-> session_id, updates |-> updates]>>]
         found == get_session_by_id(session_id)
         existing_session == MergeUpdates(CHOOSE x \in found : TRUE, updates, Now)
     IN calls' = [calls EXCEPT ![c] =
          IF found = {} THEN Finished(call, "None", << >>)
          ELSE IF ~session_validate_business_rules(existing_session)
          THEN Finished(call, "ValueError", << >>)
          ELSE [call EXCEPT !.pending = <<UpdateData(existing_session)>>,
                            !.pc = "update_write"]]
  /\ UNCHANGED <<clock, reports, sessions, jackpots, bonos, nextOid, agg, users>>

(* update_one({"_id": ObjectId(session_id)}, {"$set": update_data}) *)
UpdateSessionWrite(c) ==
  /\ calls[c].pc = "update_write"
  /\ sessions' = UpdateOne(sessions, ToObjectId(calls[c].args[1].session_id),
                           calls[c].pending[1])
  /\ calls' = [calls EXCEPT ![c] = Finished(@, "ok", << >>)]
  /\ UNCHANGED <<clock, reports, jackpots, bonos, nextOid, agg, users>>

SessionsNext ==
  \/ Tick
  \/ \E input \in SessionRequests : CreateSession(input)
  \/ \E c \in Callers, id \in SessionIds, end_time \in EndTimes :
       EndSessionRead(c, id, end_time)
  \/ \E c \in Callers : EndSessionWrite(c)
  \/ \E c \in Callers, id \in SessionIds, updates \in SessionUpdates :
       UpdateSessionRead(c, id, updates)
  \/ \E c \in Callers : UpdateSessionWrite(c)

SpecSessions == Init /\ [][SessionsNext]_vars

(* SessionService.delete_session: delete_one({"_id": ObjectId(session_id)}) *)
DeleteSession(session_id) ==
  /\ sessions' = DeleteOne(sessions, ToObjectId(session_id))
  /\ UNCHANGED <<clock, reports, jackpots, bonos, nextOid, calls, agg, users>>

(* the dealers of the two-dealer runs *)
DealerIds == {"d1", "d2"}

(* create_session arguments: an open session starting now, per dealer *)
DealerRequests ==
  { [dealer_id |-> d, start_time |-> NoTime, end_time |-> NoTime,
     jackpot |-> 0, reik |-> 0, tips |-> 0, hourly_pay |-> 100] : d \in DealerIds }

(* update_dict of PUT /{session_id}: a new dealer_id, or a new reik *)
DealerUpdates == {[dealer_id |-> d] : d \in DealerIds} \cup {[reik |-> 5]}

DealersNext ==
  \/ Tick
  \/ \E input \in DealerRequests : CreateSession(input)
  \/ \E c \in Callers, id \in SessionIds : EndSessionRead(c, id, NoTime)
  \/ \E c \in Callers : EndSessionWrite(c)
  \/ \E c \in Callers, id \in SessionIds, updates \in DealerUpdates :
       UpdateSessionRead(c, id, updates)
  \/ \E c \in Callers : UpdateSessionWrite(c)
  \/ \E id \in SessionIds : DeleteSession(id)

SpecDealers == Init /\ [][DealersNext]_vars

----------------------------------------------------------------------------
(* POST /bonos and POST /jackpot-prices: create_bono, create_jackpot_price *)

(* the collection each endpoint inserts into and the values it is sent *)
RecordValues == [bonos |-> BonoValues, jackpots |-> JackpotValues]

(* the endpoint up to its insert: the session lookup (404 when absent) and
   the is_active check (400 when the session has an end_time) *)
CreateRecordCheck(c, kind, session_id, value) ==
  /\ Arrives(c)
  /\ LET call == [IdleCall EXCEPT !.op = "create_record",
                    !.args = <<[kind |-> kind, session_id |-> session_id,
                                value |-> value]>>]
         found == get_session_by_id(session_id)
         session == CHOOSE x \in found : TRUE
     IN calls' = [calls EXCEPT ![c] =
          IF found = {} THEN Finished(call, "404", << >>)
          ELSE IF session.end_time # NoTime THEN Finished(call, "400", << >>)
          ELSE [call EXCEPT !.pc = "record_insert"]]
  /\ UNCHANGED <<clock, reports, sessions, jackpots, bonos, nextOid, agg, users>>

(* the service's create: insert_one of the record with its session_id *)
CreateRecordInsert(c) ==
  /\ calls[c].pc = "record_insert"
  /\ CanInsert
  /\ LET kind == calls[c].args[1].kind
         doc == [_id        |-> ObjectId(nextOid[kind]),
                 session_id |-> calls[c].args[1].session_id,
                 value      |-> calls[c].args[1].value,
                 created_at |-> Now]
     IN /\ bonos' = IF kind = "bonos" THEN bonos \cup {doc} ELSE bonos
        /\ jackpots' = IF kind = "jackpots" THEN jackpots \cup {doc} ELSE jackpots
        /\ nextOid' = [nextOid EXCEPT ![kind] = @ + 1]
  /\ calls' = [calls EXCEPT ![c] = Finished(@, "ok", << >>)]
  /\ UNCHANGED <<clock, reports, sessions, agg, users>>

RecordsNext ==
  \/ Tick
  \/ \E input \in SessionInputs : CreateSession(input)
  \/ \E c \in Callers, id \in SessionIds : EndSessionRead(c, id, NoTime)
  \/ \E c \in Callers : EndSessionWrite(c)
  \/ \E c \in Callers, kind \in DOMAIN RecordValues, id \in SessionIds :
       \E value \in RecordValues[kind] : CreateRecordCheck(c, kind, id, value)
  \/ \E c \in Callers : CreateRecordInsert(c)

SpecRecords == Init /\ [][RecordsNext]_vars

----------------------------------------------------------------------------
(* Login: UserService.authenticate_user, activate_user *)

(* wrong-password calls one run takes between two resets of the count *)
MaxAttempts == 6

(* UserDomainService.record_failed_attempt: the fields the call then $sets *)
record_failed_attempt(user) ==
  [failed_attempts |-> user.failed_attempts + 1,
   is_active |-> IF user.failed_attempts + 1 >= LockoutThreshold THEN FALSE
                 ELSE user.is_active]

(* authenticate_user up to its first write: the user is read; an inactive
   or locked account returns None; a wrong password prepares the write of
   record_failed_attempt; a right password with failed_attempts > 0 prepares
   the reset; a right password with failed_attempts = 0 returns the user *)
AuthenticateRead(a, password_ok) ==
  /\ users.auth[a].pc = "idle"
  /\ password_ok \/ users.wrong < MaxAttempts
  /\ users' =
       IF ~users.is_active \/ users.failed_attempts >= LockoutThreshold
       THEN [users EXCEPT !.auth[a].returned = "None"]
       ELSE IF ~password_ok
       THEN [users EXCEPT !.auth[a] =
               [pc |-> "write_failed", update |-> <<record_failed_attempt(users)>>,
                returned |-> "-"]]
       ELSE IF users.failed_attempts > 0
       THEN [users EXCEPT !.auth[a] =
               [pc |-> "write_reset", update |-> << >>, returned |-> "-"]]
       ELSE [users EXCEPT !.auth[a].returned = "user", !.wrong = 0]
  /\ UNCHANGED <<clock, reports, sessions, jackpots, bonos, nextOid, calls, agg>>

(* the $set of failed_attempts and is_active after a wrong password *)
AuthenticateWriteFailed(a) ==
  /\ users.auth[a].pc = "write_failed"
  /\ users' = [users EXCEPT
       !.failed_attempts = users.auth[a].update[1].failed_attempts,
       !.is_active = users.auth[a].update[1].is_active,
       !.wrong = @ + 1,
       !.auth[a] = [IdleAuth EXCEPT !.returned = "None"]]
  /\ UNCHANGED <<clock, reports, sessions, jackpots, bonos, nextOid, calls, agg>>

(* the $set of failed_attempts = 0 after a right password *)
AuthenticateWriteReset(a) ==
  /\ users.auth[a].pc = "write_reset"
  /\ users' = [users EXCEPT
       !.failed_attempts = 0,
       !.wrong = 0,
       !.auth[a] = [IdleAuth EXCEPT !.returned = "user"]]
  /\ UNCHANGED <<clock, reports, sessions, jackpots, bonos, nextOid, calls, agg>>

(* activate_user: the $set of is_active = True and failed_attempts = 0 *)
ActivateUser ==
  /\ users' = [users EXCEPT !.failed_attempts = 0, !.is_active = TRUE, !.wrong = 0]
  /\ UNCHANGED <<clock, reports, sessions, jackpots, bonos, nextOid, calls, agg>>

UsersNext ==
  \/ \E a \in Callers, password_ok \in BOOLEAN : AuthenticateRead(a, password_ok)
  \/ \E a \in Callers : AuthenticateWriteFailed(a)
  \/ \E a \in Callers : AuthenticateWriteReset(a)
  \/ ActivateUser

SpecUsers == Init /\ [][UsersNext]_vars

----------------------------------------------------------------------------
(* Generation over a day with about a page of sessions *)

PageDay == MaxDay

(* n closed one-minute sessions of day PageDay, two minutes apart from 06:00
   UTC, each with reik 10 *)
DaySessions(n) ==
  { [_id        |-> ObjectId(i),
     dealer_id  |-> "d1",
     start_time |-> At(PageDay, 6) + i * 120 * TicksPerSecond,
     end_time   |-> At(PageDay, 6) + i * 120 * TicksPerSecond + 60 * TicksPerSecond,
     jackpot    |-> 0,
     reik       |-> 10,
     tips       |-> 0,
     hourly_pay |-> 0] : i \in 1..n }

PageInit ==
  /\ users = UsersStart
  /\ clock = 1
  /\ reports = {}
  /\ \E n \in (SessionPageLimit - 1)..(SessionPageLimit + 1) :
       /\ sessions = DaySessions(n)
       /\ nextOid = [c \in {"reports", "sessions", "jackpots", "bonos"} |->
                       IF c = "sessions" THEN n + 1 ELSE 1]
  /\ jackpots = {}
  /\ bonos = {}
  /\ calls = [c \in Callers |-> IdleCall]
  /\ agg = AggOff

PageNext ==
  \/ \E c \in Callers, d \in ReportDates : GogStart(c, d)
  \/ \E c \in Callers : GogTodayLookup(c)
  \/ \E c \in Callers : GogPastLookup(c)
  \/ \E c \in Callers : GenSessions(c)
  \/ \E c \in Callers : GenJackpots(c)
  \/ \E c \in Callers : GenBonos(c)

SpecPage == PageInit /\ [][PageNext]_vars

----------------------------------------------------------------------------
(* The aggregation fold on drawn inputs: the three loops of
   generate_daily_report_from_sessions applied to sessions, jackpot wins and
   bonos as the range queries return them *)

AggDate == MaxDay

AggSessionPool ==
  { [id |-> Str(ObjectId(1)), dealer_id |-> "d1",
     start_time |-> At(AggDate, 9), end_time |-> At(AggDate, 11),
     jackpot |-> 0, reik |-> 1000, tips |-> 50, hourly_pay |-> 100],
    [id |-> Str(ObjectId(2)), dealer_id |-> "d1",
     start_time |-> At(AggDate, 9),
     end_time |-> At(AggDate, 9) + (1999 * TicksPerHour) \div 1000,
     jackpot |-> 0, reik |-> 0, tips |-> 0, hourly_pay |-> 100],
    [id |-> Str(ObjectId(3)), dealer_id |-> "d2",
     start_time |-> At(AggDate, 9),
     end_time |-> At(AggDate, 9) + (1999 * TicksPerHour) \div 1000,
     jackpot |-> 0, reik |-> 300, tips |-> 0, hourly_pay |-> 100],
    [id |-> Str(ObjectId(4)), dealer_id |-> "d3",
     start_time |-> At(AggDate, 9), end_time |-> NoTime,
     jackpot |-> 200, reik |-> 500, tips |-> 10, hourly_pay |-> 150],
    [id |-> Str(ObjectId(5)), dealer_id |-> "d4",
     start_time |-> At(AggDate, 9), end_time |-> At(AggDate, 10),
     jackpot |-> 0, reik |-> 1000, tips |-> 0, hourly_pay |-> 0] }

AggJackpotPool ==
  { [id |-> Str(ObjectId(1)), value |-> 5000],
    [id |-> Str(ObjectId(2)), value |-> 700] }

AggBonoPool == { [id |-> Str(ObjectId(1)), value |-> 300] }

AggNows == {At(AggDate, 9) + TicksPerHour \div 2, At(AggDate, 12)}

(* the sequences of at most n distinct elements of pool *)
RECURSIVE ListsUpTo(_, _)
ListsUpTo(pool, n) ==
  IF n = 0 THEN {<< >>}
  ELSE {<< >>} \cup
       {<<x>> \o rest : x \in pool, rest \in ListsUpTo(pool, n - 1)}

Distinct(seq) == \A i, j \in 1..Len(seq) : i # j => seq[i] # seq[j]

AggInputs ==
  { [pc |-> "sessions", sessions |-> ss, jackpots |-> js, bonos |-> bs,
     now |-> n, fs |-> << >>, fj |-> << >>, kwargs |-> << >>] :
      ss \in {l \in ListsUpTo(AggSessionPool, MaxLen) : Distinct(l)},
      js \in {l \in ListsUpTo(AggJackpotPool, MaxLen) : Distinct(l)},
      bs \in {l \in ListsUpTo(AggBonoPool, MaxLen) : Distinct(l)},
      n \in AggNows }

AggInit ==
  /\ users = UsersStart
  /\ clock = 1
  /\ reports = {}
  /\ sessions = {}
  /\ jackpots = {}
  /\ bonos = {}
  /\ nextOid = [c \in {"reports", "sessions", "jackpots", "bonos"} |-> 1]
  /\ calls = [c \in Callers |-> IdleCall]
  /\ agg \in AggInputs

AggSessions ==
  /\ agg.pc = "sessions"
  /\ agg' = [agg EXCEPT !.fs = <<FoldSessions(agg.sessions, agg.now)>>,
                        !.pc = "jackpots"]
  /\ UNCHANGED <<clock, reports, sessions, jackpots, bonos, nextOid, calls, users>>

AggJackpots ==
  /\ agg.pc = "jackpots"
  /\ agg' = [agg EXCEPT !.fj = <<FoldJackpots(agg.jackpots)>>, !.pc = "bonos"]
  /\ UNCHANGED <<clock, reports, sessions, jackpots, bonos, nextOid, calls, users>>

AggBonos ==
  /\ agg.pc = "bonos"
  /\ agg' = [agg EXCEPT
       !.kwargs = <<ReportArgs(AggDate, agg.fs[1], agg.fj[1], FoldBonos(agg.bonos))>>,
       !.pc = "done"]
  /\ UNCHANGED <<clock, reports, sessions, jackpots, bonos, nextOid, calls, users>>

AggNext == AggSessions \/ AggJackpots \/ AggBonos

SpecAgg == AggInit /\ [][AggNext]_vars

----------------------------------------------------------------------------
(* Properties *)

Range(seq) == {seq[i] : i \in 1..Len(seq)}

RECURSIVE SumIdx(_, _)
SumIdx(f, S) ==
  IF S = {} THEN 0
  ELSE IF Cardinality(S) = 1 THEN f[CHOOSE j \in S : TRUE]
  ELSE LET mid == CHOOSE j \in S :
                    Cardinality({k \in S : k < j}) = Cardinality(S) \div 2
       IN SumIdx(f, {k \in S : k < mid}) + SumIdx(f, {k \in S : k >= mid})

SumField(seq, field) ==
  SumIdx([i \in 1..Len(seq) |-> seq[i][field]], 1..Len(seq))

(* the integer q with q <= hours * hourly_pay < q + 1, hours being the time
   from start_time to end_time (to now for an open session) *)
LaborOf(session, nowUtc) ==
  LET duration == (IF session.end_time # NoTime THEN session.end_time ELSE nowUtc)
                    - session.start_time
      n == duration * session.hourly_pay
  IN CHOOSE q \in 0..(session.hourly_pay * (duration \div TicksPerHour + 1)) :
       q * TicksPerHour <= n /\ n < (q + 1) * TicksPerHour

LaborSum(list, nowUtc) ==
  SumIdx([i \in 1..Len(list) |-> LaborOf(list[i], nowUtc)], 1..Len(list))

Done(c) == calls[c].pc = "done"

(* every report stored for the date of call c is the one call c returned *)
OnlyOwnReport(c) ==
  \A doc \in FindByDate(reports, calls[c].date) :
    calls[c].result.kind = "ok" /\ calls[c].result.report = <<FromDoc(doc)>>

(* C1: in every reachable state the report store holds at most one report
   per date, under any interleaving of get-or-generate and
   create_daily_report calls *)
C1_AtMostOneReportPerDate ==
  \A r1, r2 \in reports : r1.date = r2.date => r1 = r2

(* C2: a get-or-generate call for today that found the report an earlier,
   finished call persisted, with a session of the day in the store that the
   report does not list and no other call in flight, succeeds, returns a
   report listing the new session, removes the old report and leaves exactly
   one report for today *)
C2_TodayRegenerates ==
  \A c \in Callers :
    (/\ Done(c)
     /\ calls[c].op = "gog"
     /\ calls[c].date = calls[c].today_bogota
     /\ calls[c].existing # {}
     /\ calls[c].args # << >>
     /\ \A o \in Callers \ {c} :
          \/ calls[o].pc = "idle"
          \/ /\ o < c
             /\ Done(o)
             /\ calls[o].result.kind = "ok"
             /\ calls[o].result.report[1] \in calls[c].existing
     /\ \E sid \in Range(calls[c].args[1].sessions) :
          \A old \in calls[c].existing : sid \notin Range(old.sessions))
    => /\ calls[c].result.kind = "ok"
       /\ Range(calls[c].args[1].sessions) \subseteq
            Range(calls[c].result.report[1].sessions)
       /\ \A old \in calls[c].existing :
            \A doc \in reports : Str(doc["_id"]) # old.id
       /\ Cardinality(FindByDate(reports, calls[c].date)) = 1

(* C3: whenever a get-or-generate call for a date that is not today observes
   a persisted report for that date, the step writes nothing to the report
   store and ends the call with that stored report, id and all fields *)
C3_PastDateIsCached ==
  [][\A c \in Callers :
       (/\ calls'[c] # calls[c]
        /\ calls'[c].op = "gog"
        /\ calls'[c].date # calls'[c].today_bogota
        /\ calls'[c].existing # {})
       => /\ reports' = reports
          /\ calls'[c].pc = "done"
          /\ calls'[c].result.kind = "ok"
          /\ calls'[c].result.report \in
               {<<FromDoc(doc)>> : doc \in FindByDate(reports, calls'[c].date)}]_vars

(* a past-date call returned the stored report although a session of that
   date is not in it *)
C3_Witness ==
  \E c \in Callers :
    /\ Done(c)
    /\ calls[c].op = "gog"
    /\ calls[c].date # calls[c].today_bogota
    /\ calls[c].result.kind = "ok"
    /\ \E doc \in sessions :
         /\ doc.start_time >= StartOfDay(calls[c].date)
         /\ doc.start_time <= EndOfDay(calls[c].date)
         /\ Str(doc["_id"]) \notin Range(calls[c].result.report[1].sessions)

(* C4: the gastos handed to create_daily_report is bonos + jackpot wins +
   per-session labor cost + tips, and ganancias is reik - gastos; one closed
   2-hour session with reik 1000, hourly_pay 100, tips 50 gives 250 and 750 *)
C4_ExpenseFormula ==
  agg.pc = "done" =>
    LET k == agg.kwargs[1]
    IN /\ k.gastos = SumField(agg.bonos, "value") + SumField(agg.jackpots, "value")
                       + LaborSum(agg.sessions, agg.now)
                       + SumField(agg.sessions, "tips")
       /\ k.ganancias = SumField(agg.sessions, "reik") - k.gastos
       /\ (/\ Len(agg.sessions) = 1
           /\ agg.sessions[1].id = Str(ObjectId(1))
           /\ agg.jackpots = << >>
           /\ agg.bonos = << >>)
          => (k.gastos = 250 /\ k.ganancias = 750)

(* an aggregation over sessions with tips and labor, a jackpot win and a bono *)
C4_Witness ==
  /\ agg.pc = "done"
  /\ Len(agg.sessions) >= 2
  /\ agg.jackpots # << >>
  /\ agg.bonos # << >>
  /\ SumField(agg.sessions, "tips") > 0
  /\ LaborSum(agg.sessions, agg.now) > 0
  /\ agg.kwargs[1].ganancias < 0

(* C5: a call that hands create_daily_report a day whose gastos exceeds its
   reik, with ganancias = reik - gastos, succeeds and persists the report
   with that negative ganancias and is_profitable false *)
C5_LossDayReportable ==
  \A c \in Callers :
    (/\ Done(c)
     /\ calls[c].args # << >>
     /\ calls[c].args[1].gastos > calls[c].args[1].reik
     /\ calls[c].args[1].ganancias = calls[c].args[1].reik - calls[c].args[1].gastos
     /\ calls[c].existing = {}
     /\ OnlyOwnReport(c))
    => /\ calls[c].result.kind = "ok"
       /\ calls[c].result.report[1].ganancias = calls[c].args[1].ganancias
       /\ ~is_profitable(calls[c].result.report[1])
       /\ FindByDate(reports, calls[c].date) # {}

(* C6: the lookup step of a create_daily_report call for a date that has a
   persisted report ends the call with an error and leaves the report store
   unchanged *)
C6_CreateRejectsDuplicate ==
  [][\A c \in Callers :
       (/\ calls[c].pc = "create_lookup"
        /\ calls'[c] # calls[c]
        /\ FindByDate(reports, calls[c].args[1].report_date) # {})
       => /\ calls'[c].pc = "done"
          /\ calls'[c].result.kind = "ValueError"
          /\ reports' = reports]_vars

(* a create call with valid values was rejected because the date has a report *)
C6_Witness ==
  \E c \in Callers :
    /\ Done(c)
    /\ calls[c].op = "create"
    /\ calls[c].result.kind = "ValueError"
    /\ DomainCreateDailyReport(ServiceDomainArgs(calls[c].args[1]), Now) # {}
    /\ FindByDate(reports, calls[c].date) # {}

(* C7: a get-or-generate call that found no report at its lookup and ends
   while a report for the date, inserted meanwhile by another call, is in
   the store does not fail: it returns that report *)
C7_InsertRaceLoserRefetches ==
  [][\A c \in Callers :
       (/\ calls[c].op = "gog"
        /\ calls[c].pc # "done"
        /\ calls'[c].pc = "done"
        /\ calls'[c].existing = {}
        /\ FindByDate(reports, calls[c].date) # {})
       => /\ calls'[c].result.kind = "ok"
          /\ calls'[c].result.report \in
               {<<FromDoc(doc)>> : doc \in FindByDate(reports', calls[c].date)}]_vars

(* C8: the labor cost is truncated per session before accumulation: the
   accumulated dealer cost is the sum of the truncated per-session costs,
   and one session of 1.999 hours at hourly_pay 100 contributes 199 *)
C8_TruncationPerSession ==
  agg.fs # << >> =>
    /\ agg.fs[1].total_dealer_cost = LaborSum(agg.sessions, agg.now)
    /\ (Len(agg.sessions) = 1 /\ agg.sessions[1].id = Str(ObjectId(2)))
         => agg.fs[1].total_dealer_cost = 199
    /\ agg.pc = "done" =>
         agg.kwargs[1].gastos - SumField(agg.sessions, "tips")
           - SumField(agg.jackpots, "value") - SumField(agg.bonos, "value")
         = LaborSum(agg.sessions, agg.now)

(* two sessions of 1.999 hours at 100: 199 + 199, where the truncation of
   the summed cost would be 399 *)
C8_Witness ==
  /\ agg.pc = "done"
  /\ Len(agg.sessions) = 2
  /\ {agg.sessions[1].id, agg.sessions[2].id} = {Str(ObjectId(2)), Str(ObjectId(3))}
  /\ agg.fs[1].total_dealer_cost = 398

(* C9: a generation over a day with no session, jackpot win or bono raises
   no error and persists a report with reik, gastos and ganancias 0, empty
   lists, and is_profitable false *)
C9_EmptyDay ==
  \A c \in Callers :
    (/\ Done(c)
     /\ calls[c].op = "gog"
     /\ calls[c].existing = {}
     /\ calls[c].args # << >>
     /\ calls[c].args[1].sessions = << >>
     /\ calls[c].args[1].jackpot_wins = << >>
     /\ calls[c].args[1].bonos = << >>
     /\ OnlyOwnReport(c))
    => /\ calls[c].result.kind = "ok"
       /\ LET r == calls[c].result.report[1]
          IN /\ r.reik = 0 /\ r.gastos = 0 /\ r.ganancias = 0
             /\ r.sessions = << >> /\ r.jackpot_wins = << >> /\ r.bonos = << >>
             /\ ~is_profitable(r)
       /\ FindByDate(reports, calls[c].date) # {}

(* C10: for every report, is_profitable() is true iff ganancias > 0 *)
C10_ProfitableIffGanancias ==
  \A doc \in reports : is_profitable(FromDoc(doc)) <=> doc.ganancias > 0

(* the report doc keeps, in the step, its id, date, jackpot_wins, bonos and
   created_at, and no document is added or removed *)
FrameKept ==
  /\ \A doc \in reports : \E d2 \in reports' :
       /\ d2["_id"] = doc["_id"]
       /\ d2.date = doc.date
       /\ d2.jackpot_wins = doc.jackpot_wins
       /\ d2.bonos = doc.bonos
       /\ d2.created_at = doc.created_at
  /\ \A d2 \in reports' : \E doc \in reports : d2["_id"] = doc["_id"]

(* C11: a PUT /{report_id} request, whatever its body carries, leaves the
   jackpot_wins, bonos, date, id and created_at of every persisted report
   as they were *)
C11_UpdateKeepsDerivedFields ==
  [][\A c \in Callers :
       (calls[c].pc = "idle" /\ calls'[c].op = "put") => FrameKept]_vars

(* a finished PUT for the id of a persisted report whose body passed the
   schema and carried jackpot_wins and bonos *)
C11_Witness ==
  \E c \in Callers :
    /\ Done(c)
    /\ calls[c].op = "put"
    /\ calls[c].args[1].report_data.jackpot_wins # << >>
    /\ calls[c].args[1].report_data.bonos # << >>
    /\ calls[c].result.kind # "ValidationError"
    /\ \E doc \in reports : Str(doc["_id"]) = calls[c].args[1].report_id

(* C12: an update_report call for a persisted report whose merged result has
   a negative reik, jackpot or gastos raises the validation error and leaves
   the report store as it was *)
C12_InvalidUpdateRejected ==
  [][\A c \in Callers :
       (/\ calls[c].pc = "idle"
        /\ calls'[c].op = "update"
        /\ \E doc \in reports : Str(doc["_id"]) = calls'[c].args[1].report_id
        /\ \E f \in {"reik", "jackpot", "gastos"} \cap DOMAIN calls'[c].args[1].updates :
             calls'[c].args[1].updates[f] < 0)
       => /\ calls'[c].result.kind = "ValueError"
          /\ reports' = reports]_vars

(* C13: delete_report with the id of a persisted report removes exactly that
   report and returns true; with an id that matches no report it returns
   false and leaves the store unchanged *)
C13_DeleteById ==
  [][\A c \in Callers :
       (calls[c].pc = "idle" /\ calls'[c].op = "delete")
       => LET hit == {doc \in reports : Str(doc["_id"]) = calls'[c].args[1].report_id}
          IN IF hit # {}
             THEN reports' = reports \ hit /\ calls'[c].result.kind = "True"
             ELSE reports' = reports /\ calls'[c].result.kind = "False"]_vars

(* the UTC-5 calendar date of an instant *)
BogotaDate(t) == TodayBogota(t)

(* C14: the sessions a generation for date d fetches are exactly the stored
   sessions whose start_time has UTC-5 calendar date d; a session started at
   22:00 Bogota time of day d belongs to the report of d *)
C14_DayRangeInBogota ==
  [][\A c \in Callers :
       (calls[c].pc = "gen_sessions" /\ calls'[c].pc = "gen_jackpots")
       => Range(calls'[c].fs[1].session_ids)
            = {Str(doc["_id"]) :
                 doc \in {d \in sessions : BogotaDate(d.start_time) = calls[c].date}}]_vars

(* C15: a get-or-generate call for a date other than today that found no
   report, and beside which no other call stored one, does not fail: it
   returns a report and that report is persisted *)
C15_OtherDateGeneratesOnce ==
  \A c \in Callers :
    (/\ Done(c)
     /\ calls[c].op = "gog"
     /\ calls[c].date # calls[c].today_bogota
     /\ calls[c].existing = {}
     /\ OnlyOwnReport(c))
    => /\ calls[c].result.kind = "ok"
       /\ \E doc \in FindByDate(reports, calls[c].date) :
            calls[c].result.report = <<FromDoc(doc)>>

(* the stored sessions whose start_time lies in the day range of date d *)
SessionsOfDay(d) ==
  {doc \in sessions : doc.start_time >= StartOfDay(d) /\ doc.start_time <= EndOfDay(d)}

(* C16: the session loop of a generation covers every session of the day:
   its id list holds the id of every stored session whose start_time lies in
   the day range, and its reik is the sum of their reik, however many *)
C16_AllSessionsCovered ==
  [][\A c \in Callers :
       (calls[c].pc = "gen_sessions" /\ calls'[c].pc = "gen_jackpots")
       => LET day == SessionsOfDay(calls[c].date)
              ids == [n \in {doc["_id"][2] : doc \in day} |->
                        (CHOOSE doc \in day : doc["_id"][2] = n).reik]
          IN /\ Range(calls'[c].fs[1].session_ids) = {Str(doc["_id"]) : doc \in day}
             /\ calls'[c].fs[1].total_reik = SumIdx(ids, DOMAIN ids)]_vars

(* C17: a generation that fetched a jackpot win or a bono, and beside which
   no other call stored a report for the date, persists a report whose
   jackpot_wins and bonos are the entries it built, one per fetched win and
   bono, their sums being the jackpot-win and bono parts of its gastos *)
C17_DerivedListsPersisted ==
  \A c \in Callers :
    (/\ Done(c)
     /\ calls[c].op = "gog"
     /\ calls[c].args # << >>
     /\ (calls[c].args[1].jackpot_wins # << >> \/ calls[c].args[1].bonos # << >>)
     /\ OnlyOwnReport(c))
    => /\ calls[c].result.kind = "ok"
       /\ \E doc \in FindByDate(reports, calls[c].date) :
            /\ doc.jackpot_wins = calls[c].args[1].jackpot_wins
            /\ doc.bonos = calls[c].args[1].bonos
            /\ doc.gastos >= SumField(doc.jackpot_wins, "sum")
                               + SumField(doc.bonos, "sum")

(* the orders a store can return the records of seq in *)
Perms(seq) ==
  { [i \in 1..Len(seq) |-> seq[f[i]]] :
      f \in {g \in [1..Len(seq) -> 1..Len(seq)] :
               \A i, j \in 1..Len(seq) : i # j => g[i] # g[j]} }

NoOpenSession(list) == \A i \in 1..Len(list) : list[i].end_time # NoTime

(* the keyword arguments the fold builds from the three fetched lists *)
Generated(ss, js, bs, nowUtc) ==
  ReportArgs(AggDate, FoldSessions(ss, nowUtc), FoldJackpots(js), FoldBonos(bs))

(* C18: on a day without open sessions the fold yields the same reik,
   jackpot, gastos and ganancias and the same set of jackpot_wins and bonos
   entries for every order of the fetched records and at every instant *)
C18_OrderIndependent ==
  (agg.pc = "done" /\ NoOpenSession(agg.sessions)) =>
    \A ss \in Perms(agg.sessions), js \in Perms(agg.jackpots),
       bs \in Perms(agg.bonos), n \in AggNows :
      LET k == agg.kwargs[1]
          k2 == Generated(ss, js, bs, n)
      IN /\ k2.reik = k.reik
         /\ k2.jackpot = k.jackpot
         /\ k2.gastos = k.gastos
         /\ k2.ganancias = k.ganancias
         /\ Range(k2.jackpot_wins) = Range(k.jackpot_wins)
         /\ Range(k2.bonos) = Range(k.bonos)

(* a fold over two closed sessions of different labor cost and two wins *)
C18_Witness ==
  /\ agg.pc = "done"
  /\ NoOpenSession(agg.sessions)
  /\ Len(agg.sessions) = 2
  /\ LaborOf(agg.sessions[1], agg.now) # LaborOf(agg.sessions[2], agg.now)
  /\ Len(agg.jackpots) = 2
  /\ agg.kwargs[1].gastos > 0

(* C19: an open session is costed against now, trunc((now - start_time) in
   hours * hourly_pay): over the same fetched records a later now gives a
   gastos that is not smaller and a ganancias that is not larger; the cost
   of a closed session is the same at every now.  The open session of the
   pool, started 09:00 at 150 an hour, costs 75 at 09:30 and 450 at 12:00 *)
C19_OpenSessionCostedToNow ==
  agg.pc = "done" =>
    /\ \A n \in AggNows :
         LET k == agg.kwargs[1]
             k2 == Generated(agg.sessions, agg.jackpots, agg.bonos, n)
         IN /\ n >= agg.now => (k2.gastos >= k.gastos /\ k2.ganancias <= k.ganancias)
            /\ \A i \in 1..Len(agg.sessions) :
                 agg.sessions[i].end_time # NoTime
                   => DealerCost(agg.sessions[i], n) = DealerCost(agg.sessions[i], agg.now)
    /\ \A i \in 1..Len(agg.sessions) :
         agg.sessions[i].end_time = NoTime
           => /\ DealerCost(agg.sessions[i], agg.now) = LaborOf(agg.sessions[i], agg.now)
              /\ agg.sessions[i].id = Str(ObjectId(4))
                   => DealerCost(agg.sessions[i], agg.now)
                        = (IF agg.now = At(AggDate, 12) THEN 450 ELSE 75)

(* a fold at the earlier instant over the open session and a closed one *)
C19_Witness ==
  /\ agg.pc = "done"
  /\ agg.now < At(AggDate, 12)
  /\ \E i \in 1..Len(agg.sessions) : agg.sessions[i].end_time = NoTime
  /\ \E i \in 1..Len(agg.sessions) :
       agg.sessions[i].end_time # NoTime /\ agg.sessions[i].hourly_pay > 0
  /\ agg.fs[1].total_dealer_cost > 75

(* C20: every stored session has an end_time that is absent or not before
   its start_time, and a closed session has no negative labor cost *)
C20_EndNotBeforeStart ==
  \A doc \in sessions :
    doc.end_time # NoTime
      => /\ doc.end_time >= doc.start_time
         /\ DealerCost(SessionFromDoc(doc), Now) >= 0

(* the call of a step asks for a negative reik, jackpot or gastos *)
AsksNegative(call) ==
  \/ call.op = "create" /\ \E f \in {"reik", "jackpot", "gastos"} : call.args[1][f] < 0
  \/ /\ call.op = "update"
     /\ \E f \in {"reik", "jackpot", "gastos"} \cap DOMAIN call.args[1].updates :
          call.args[1].updates[f] < 0
  \/ call.op \in {"add_income", "add_expense"} /\ call.args[1].amount < 0

(* C21: every stored report has reik, jackpot and gastos >= 0 under any
   sequence of create, generate, update, add_income, add_expense and delete
   calls, and a call that asks for a negative one does not succeed and
   leaves the store as it was *)
C21_NonNegativeMoney ==
  /\ [](\A doc \in reports : doc.reik >= 0 /\ doc.jackpot >= 0 /\ doc.gastos >= 0)
  /\ [][\A c \in Callers :
          (calls[c].pc # "done" /\ calls'[c].pc = "done" /\ AsksNegative(calls'[c]))
          => (calls'[c].result.kind # "ok" /\ reports' = reports)]_vars

(* a create call with a negative gastos was refused while a report is stored *)
C21_Witness ==
  /\ reports # {}
  /\ \E c \in Callers :
       /\ Done(c)
       /\ calls[c].op = "create"
       /\ calls[c].args[1].gastos < 0
       /\ calls[c].result.kind = "ValueError"

(* C22: get_report_by_id with the id of a stored report, as create or
   get-by-date hand it out, returns that report; it returns not-found only
   when no stored report has the id *)
C22_GetByIdRoundTrip ==
  [][\A c \in Callers :
       (calls[c].pc = "idle" /\ calls'[c].op = "get")
       => LET hit == {doc \in reports : Str(doc["_id"]) = calls'[c].args[1].report_id}
          IN IF hit # {}
             THEN /\ calls'[c].result.kind = "ok"
                  /\ calls'[c].result.report \in {<<FromDoc(doc)>> : doc \in hit}
             ELSE calls'[c].result.kind = "None"]_vars

(* C23: once every get-or-generate call made so far was for today and has
   finished, on source data whose computed values are valid, the store holds
   at least one report for today; no call removed a report another call
   inserted *)
C23_RegenerationLeavesAReport ==
  (/\ \E c \in Callers : Done(c)
   /\ \A c \in Callers :
        \/ calls[c].pc = "idle"
        \/ /\ Done(c)
           /\ calls[c].op = "gog"
           /\ calls[c].date = calls[c].today_bogota
           /\ calls[c].args # << >>
           /\ DomainCreateDailyReport(ServiceDomainArgs(calls[c].args[1]), Now) # {})
  => \E c \in Callers :
       /\ Done(c)
       /\ FindByDate(reports, calls[c].date) # {}

(* C24: when a get-or-generate call for today ends in an error, every report
   it found persisted for today at its lookup is still in the store, with
   the same id and fields *)
C24_FailedRegenerationKeepsReport ==
  \A c \in Callers :
    (/\ Done(c)
     /\ calls[c].op = "gog"
     /\ calls[c].date = calls[c].today_bogota
     /\ calls[c].result.kind # "ok")
    => \A old \in calls[c].existing : \E doc \in reports : FromDoc(doc) = old

(* a regeneration that found a report for today and ended in an error *)
C24_Witness ==
  \E c \in Callers :
    /\ Done(c)
    /\ calls[c].op = "gog"
    /\ calls[c].date = calls[c].today_bogota
    /\ calls[c].existing # {}
    /\ calls[c].result.kind = "TypeError"

(* C25: at the step where date d stops being today, after a single
   get-or-generate call generated d's report while d was today and
   finished, the store holds for d a report with the sessions and the gastos
   of that generation, labor cost of the then-open sessions included; and
   every lookup of a get-or-generate(d) call made when d is not today that
   observes a stored report ends the call with that report and writes
   nothing *)
C25_RolloverFreezesReport ==
  [][/\ \A c \in Callers :
          (/\ Done(c)
           /\ calls[c].op = "gog"
           /\ calls[c].date = calls[c].today_bogota
           /\ calls[c].args # << >>
           /\ \A o \in Callers \ {c} : calls[o].pc = "idle"
           /\ TodayBogota(Now) = calls[c].date
           /\ TodayBogota(Now') # calls[c].date)
          => \E doc \in FindByDate(reports', calls[c].date) :
               /\ doc.gastos = calls[c].args[1].gastos
               /\ doc.sessions = calls[c].args[1].sessions
     /\ \A c \in Callers :
          (/\ calls[c].pc = "past_lookup"
           /\ calls'[c].pc # "past_lookup"
           /\ FindByDate(reports, calls[c].date) # {})
          => /\ calls'[c].pc = "done"
             /\ calls'[c].result.kind = "ok"
             /\ calls'[c].result.report[1] \in
                  {FromDoc(doc) : doc \in FindByDate(reports, calls[c].date)}
             /\ reports' = reports]_vars

(* the ids of the sessions a fetch for report_date would return now *)
SessionIdsInRange(report_date) ==
  FoldSessions(get_sessions_by_date_range(StartOfDay(report_date),
                                          EndOfDay(report_date)), Now).session_ids

(* the jackpot entries a fetch for report_date would build now *)
JackpotWinsInRange(report_date) ==
  FoldJackpots(FilterByCreatedAt(jackpots, StartOfDay(report_date),
                                 EndOfDay(report_date),
                                 FilterPageLimit)).jackpot_wins_list

(* the bonos a fetch for report_date would return in this collection *)
BonosInRange(collection, report_date) ==
  FilterByCreatedAt(collection, StartOfDay(report_date), EndOfDay(report_date),
                    FilterPageLimit)

(* C26: the three lists of a generation are the contents of the stores at
   one instant of the call. The stores only grow here, so a generation that
   has fetched its sessions and jackpot wins and whose session list or
   jackpot list is no longer what the store holds for the day can have no
   such instant once a bono of the day is inserted before its bono fetch:
   no step inserts one *)
C26_OneSnapshot ==
  [][\A c \in Callers :
       (/\ calls[c].op = "gog"
        /\ calls[c].pc = "gen_bonos"
        /\ \/ SessionIdsInRange(calls[c].date) # calls[c].fs[1].session_ids
           \/ JackpotWinsInRange(calls[c].date) # calls[c].fj[1].jackpot_wins_list)
       => BonosInRange(bonos', calls[c].date) = BonosInRange(bonos, calls[c].date)]_vars

(* C27: in every reachable state of the session store a dealer has at most
   one session without end_time, under any interleaving of create_session,
   update_session, end_session and delete_session *)
C27_OneOpenSessionPerDealer ==
  \A s1, s2 \in sessions :
    (s1.dealer_id = s2.dealer_id /\ s1.end_time = NoTime /\ s2.end_time = NoTime)
    => s1 = s2

(* C28: a session is ended at most once: an end_session call that reads a
   session with an end_time is refused and writes nothing, an end_session
   write succeeds only on a session that is open at that moment, and no
   step leaves a session that had an end_time without one *)
C28_EndedAtMostOnce ==
  [][/\ \A c \in Callers :
          (/\ calls[c].pc = "idle"
           /\ calls'[c].op = "end_session"
           /\ \E x \in get_session_by_id(calls'[c].args[1].session_id) :
                x.end_time # NoTime)
          => (calls'[c].result.kind = "ValueError" /\ sessions' = sessions)
     /\ \A c \in Callers :
          (/\ calls[c].op = "end_session"
           /\ calls[c].pc = "end_write"
           /\ calls'[c].result.kind = "ok")
          => \A x \in get_session_by_id(calls[c].args[1].session_id) :
               x.end_time = NoTime
     /\ \A doc \in sessions, doc2 \in sessions' :
          (doc["_id"] = doc2["_id"] /\ doc.end_time # NoTime)
          => doc2.end_time # NoTime]_vars

(* C29: a bono or jackpot win is inserted only while the session it
   references exists and has no end_time, and a create request that reads a
   finished session is refused with 400 and inserts nothing *)
C29_RecordsOnlyOnOpenSessions ==
  [][\A c \in Callers :
       /\ (/\ calls[c].pc = "record_insert"
           /\ calls'[c].pc = "done")
          => \E x \in get_session_by_id(calls[c].args[1].session_id) :
               x.end_time = NoTime
       /\ (/\ calls[c].pc = "idle"
           /\ calls'[c].op = "create_record"
           /\ \E x \in get_session_by_id(calls'[c].args[1].session_id) :
                x.end_time # NoTime)
          => /\ calls'[c].result.kind = "400"
             /\ bonos' = bonos
             /\ jackpots' = jackpots]_vars

(* C30: failed_attempts stays within 0..5, and once five wrong-password
   authenticate_user calls have finished since the last activation or
   successful login, failed_attempts is 5 and the account is inactive, so
   that no sixth wrong password is accepted *)
C30_LoginLockout ==
  /\ users.failed_attempts \in 0..LockoutThreshold
  /\ users.wrong >= LockoutThreshold
       => (users.failed_attempts = LockoutThreshold /\ ~users.is_active)

====
